---- MODULE Spec2Model ----
(***************************************************************************)
(* Art Prints Storefront API (src/main.py): the startup seeding, the       *)
(* order-creation flow, the print listing and creation, and the document   *)
(* serializer, over a document store with the two collections artprint and *)
(* order.                                                                  *)
(*                                                                         *)
(* A value of the store is a record of one field, named after its type:    *)
(* oid an ObjectId (by its number), str a string, num a float in           *)
(* thousandths (49.0 is 49000), bool a boolean, list a list.  A document   *)
(* is a function from field names to values; an absent field is a name     *)
(* outside its DOMAIN.  Prices                                             *)
(* are multiples of 0.125, which a double holds exactly, so that the       *)
(* products and sums of create_order are exact and round(total, 2) rounds  *)
(* the exact value, ties to even, as Python does.                          *)
(*                                                                         *)
(* The handlers are plain functions, which the server runs on worker       *)
(* threads: every store call of a handler is a step of its own, other      *)
(* clients' writes to the catalog fall between the steps, and any store    *)
(* call may raise.  The process may also run without a store (db is None). *)
(***************************************************************************)
EXTENDS Integers, Sequences, FiniteSets, TLC

VARIABLES
    db,         \* database.db: the store handle, or None
    started,    \* the startup hook has run
    artprint,   \* the artprint collection: a sequence of documents
    order,      \* the order collection: a sequence of documents
    nextOid,    \* number of the next ObjectId the store assigns
    proc,       \* the create_order handlers: each one's position and locals
    cp,         \* the create_print handler: its position and locals
    lastReq,    \* the list_prints request served, with the catalog it found
    resp,       \* the response to lastReq
    writes,     \* number of direct store writes other clients have made
    sdoc,       \* serialize_doc's argument
    sres        \* serialize_doc's result

vars == <<db, started, artprint, order, nextOid, proc, cp, lastReq, resp, writes, sdoc, sres>>

(***************************************************************************)
(* Bounds of the model.                                                    *)
(***************************************************************************)
MaxItems == 2       \* longest item list of a request
MaxQty == 2         \* largest quantity of an item
MaxWrites == 2      \* direct store writes of other clients

(***************************************************************************)
(* Values.                                                                 *)
(***************************************************************************)
Oid(n) == [oid |-> n]
Str(s) == [str |-> s]
Num(m) == [num |-> m]
Bool(b) == [bool |-> b]
List(s) == [list |-> s]
None == [none |-> 0]
\* The store handle of a connected process
Database == [client |-> 0]
\* Not computed yet
NotYet == [unset |-> 0]

\* isinstance(v, ObjectId), and the like for the other types
IsObjectId(v) == DOMAIN v = {"oid"}
IsStr(v) == DOMAIN v = {"str"}
IsNum(v) == DOMAIN v = {"num"}
IsBool(v) == DOMAIN v = {"bool"}
IsList(v) == DOMAIN v = {"list"}

\* The 24 hex digits of an ObjectId: str() prints them in lower case, and
\* ObjectId() parses either case.
HexPrefix == "0000000000000000000000"
LowerTail == <<"a1", "a2", "a3", "a4", "a5", "a6", "a7", "a8", "a9">>
UpperTail == <<"A1", "A2", "A3", "A4", "A5", "A6", "A7", "A8", "A9">>
OidNums == 1..Len(LowerTail)
LowerHex == [n \in OidNums |-> HexPrefix \o LowerTail[n]]
UpperHex == [n \in OidNums |-> HexPrefix \o UpperTail[n]]
HexLower(n) == LowerHex[n]
HexUpper(n) == UpperHex[n]
HexStrings == {LowerHex[n] : n \in OidNums} \cup {UpperHex[n] : n \in OidNums}
OidOfHex == [s \in HexStrings |-> Oid(CHOOSE n \in OidNums : s \in {LowerHex[n], UpperHex[n]})]

\* str(x) of an ObjectId or a string
PyStr(x) == IF IsObjectId(x) THEN HexLower(x.oid) ELSE x.str

\* ObjectId(s): the identifier a string of 24 hex digits names; None stands
\* for the InvalidId exception.
ObjectId(s) == IF s \in HexStrings THEN OidOfHex[s] ELSE None

\* Python truthiness of a value
Truthy(x) ==
    CASE IsBool(x) -> x.bool
      [] IsNum(x) -> x.num # 0
      [] IsStr(x) -> x.str # ""
      [] IsList(x) -> x.list # <<>>
      [] x = None -> FALSE
      [] OTHER -> TRUE

\* dict.get(key, default)
Get(doc, k, default) == IF k \in DOMAIN doc THEN doc[k] ELSE default

\* round(x, 2) of an exactly represented x, in thousandths: to the nearest
\* hundredth, a tie to the even hundredth.
RoundUp2(m) == ((m + 5) \div 10) * 10
Round2(m) ==
    LET q == m \div 10
        r == m % 10
    IN  IF r < 5 THEN 10 * q
        ELSE IF r > 5 THEN 10 * (q + 1)
        ELSE IF q % 2 = 0 THEN 10 * q ELSE 10 * (q + 1)

(***************************************************************************)
(* serialize_doc (main.py:26-36).                                          *)
(***************************************************************************)
\* not doc: None or the empty document
IsEmptyDoc(doc) == doc = None \/ DOMAIN doc = {}

\* d = {**doc}; if "_id" in d: d["id"] = str(d.pop("_id"))
RenameId(doc) ==
    IF "_id" \in DOMAIN doc
    THEN [k \in (DOMAIN doc \ {"_id"}) \cup {"id"} |->
            IF k = "id" THEN Str(PyStr(doc["_id"])) ELSE doc[k]]
    ELSE doc

\* for k, v in list(d.items()): if isinstance(v, ObjectId): d[k] = str(v)
StringifyOids(d) == [k \in DOMAIN d |-> IF IsObjectId(d[k]) THEN Str(PyStr(d[k])) ELSE d[k]]

serialize_doc_noid(doc) ==
    IF IsEmptyDoc(doc) THEN doc
    ELSE StringifyOids([k \in DOMAIN doc \ {"_id"} |-> doc[k]])
serialize_doc(doc) ==
    IF IsEmptyDoc(doc) THEN doc
    ELSE StringifyOids(RenameId(doc))

(***************************************************************************)
(* The store.  database.py is not part of the sources: create_document and *)
(* get_documents are modelled from the specification (a generic create     *)
(* helper that stores the payload's fields under a new identifier and      *)
(* returns the identifier's string, and a generic filtered read).          *)
(***************************************************************************)
\* collection.find_one({"_id": id}): the first document with that _id, or None
find_one(coll, id) ==
    IF \E i \in 1..Len(coll) : coll[i]["_id"] = id
    THEN coll[CHOOSE i \in 1..Len(coll) :
                /\ coll[i]["_id"] = id
                /\ \A j \in 1..(i - 1) : coll[j]["_id"] # id]
    ELSE None

\* collection.find(filt): the documents whose fields equal the filter's
Matches(doc, filt) == \A k \in DOMAIN filt : k \in DOMAIN doc /\ doc[k] = filt[k]
get_documents(coll, filt) == SelectSeq(coll, LAMBDA d : Matches(d, filt))

\* create_document(collection, model): the collection with the model's
\* fields stored under the identifier Oid(n)
create_document(coll, model, n) ==
    Append(coll, [k \in DOMAIN model \cup {"_id"} |->
                    IF k = "_id" THEN Oid(n) ELSE model[k]])

\* A direct store write: $set / $unset of one field of the print Oid(n)
SetField(coll, n, f, val) ==
    [i \in 1..Len(coll) |->
        IF coll[i]["_id"] = Oid(n)
        THEN [k \in DOMAIN coll[i] \cup {f} |-> IF k = f THEN val ELSE coll[i][k]]
        ELSE coll[i]]
UnsetField(coll, n, f) ==
    [i \in 1..Len(coll) |->
        IF coll[i]["_id"] = Oid(n)
        THEN [k \in DOMAIN coll[i] \ {f} |-> coll[i][k]]
        ELSE coll[i]]

\* What the store does to a call: it answers, or the call raises
StoreFaults == {"none", "raise"}

(***************************************************************************)
(* Requests and responses.                                                 *)
(***************************************************************************)
Ok(body) == [status |-> 200, detail |-> "", body |-> body]
HTTPException(status_code, detail) == [status |-> status_code, detail |-> detail, body |-> None]
NoResp == [status |-> 0, detail |-> "", body |-> None]
NoReq == [op |-> "none", payload |-> None, fault |-> "none", pre |-> <<>>]

\* The print_id strings of the requests: an upper-case spelling of print 1,
\* print 2, a well-formed identifier of no print, and a malformed one.
UnknownOid == Len(LowerTail)
PrintIds == {HexUpper(1), HexLower(2), HexLower(UnknownOid), "not-an-id"}
Quantities == 1..MaxQty
OrderItems == [print_id : PrintIds, quantity : Quantities]
ItemLists == UNION {[1..n -> OrderItems] : n \in 0..MaxItems}
Customers == {"Ann", "Bob"}
CreateOrderRequests ==
    [customer_name : Customers, customer_email : {"c@example.com"},
     shipping_address : {"1 Main St"}, items : ItemLists]

(***************************************************************************)
(* seed_data (main.py:42-98).                                              *)
(***************************************************************************)
\* main.py:49-94: the four sample prints
samples ==
    <<[title |-> Str("Sunlit Dunes"), artist |-> Str("Ava Linden"),
       description |-> Str("Soft gradients inspired by desert horizons."),
       price |-> Num(49000), size |-> Str("12x18 in"),
       image_url |-> Str("https://images.unsplash.com/photo-1500530855697-b586d89ba3ee?q=80&w=1200&auto=format&fit=crop"),
       tags |-> List(<<"abstract", "minimal">>),
       in_stock |-> Bool(TRUE), featured |-> Bool(TRUE)],
      [title |-> Str("Coastal Mist"), artist |-> Str("Noah Pierce"),
       description |-> Str("Calming blue tones of a foggy shoreline."),
       price |-> Num(59000), size |-> Str("16x20 in"),
       image_url |-> Str("https://images.unsplash.com/photo-1501785888041-af3ef285b470?q=80&w=1200&auto=format&fit=crop"),
       tags |-> List(<<"landscape", "blue">>),
       in_stock |-> Bool(TRUE), featured |-> Bool(TRUE)],
      [title |-> Str("City Geometry"), artist |-> Str("Mila Ortega"),
       description |-> Str("Architectural lines and morning light."),
       price |-> Num(45000), size |-> Str("12x16 in"),
       image_url |-> Str("https://images.unsplash.com/photo-1491553895911-0055eca6402d?q=80&w=1200&auto=format&fit=crop"),
       tags |-> List(<<"architecture", "black-white">>),
       in_stock |-> Bool(TRUE), featured |-> Bool(FALSE)],
      [title |-> Str("Botanical Study"), artist |-> Str("Elle Fuji"),
       description |-> Str("Delicate leaves with watercolor textures."),
       price |-> Num(39000), size |-> Str("11x14 in"),
       image_url |-> Str("https://images.unsplash.com/photo-1499951360447-b19be8fe80f5?q=80&w=1200&auto=format&fit=crop"),
       tags |-> List(<<"botanical", "nature">>),
       in_stock |-> Bool(TRUE), featured |-> Bool(FALSE)]>>

\* db.artprint.insert_many(docs): each document stored under a new identifier
RECURSIVE insert_many(_, _, _)
insert_many(coll, docs, n) ==
    IF docs = <<>> THEN coll
    ELSE insert_many(create_document(coll, Head(docs), n), Tail(docs), n + 1)

\* main.py:44-98: the catalog and the next identifier the hook leaves; a
\* missing store or an exception leaves them as they were
SeedResult(database, catalog, n, fault) ==
    IF database = None \/ fault = "raise" THEN [artprint |-> catalog, nextOid |-> n]
    ELSE IF Len(catalog) = 0
    THEN [artprint |-> insert_many(catalog, samples, n), nextOid |-> n + Len(samples)]
    ELSE [artprint |-> catalog, nextOid |-> n]

(***************************************************************************)
(* create_order (main.py:171-214).                                         *)
(***************************************************************************)
\* main.py:174: not payload.items
EmptyCheckNever(payload) == FALSE
EmptyCheck(payload) == payload.items = <<>>

\* The locals of the handler before its loop (main.py:177-178); err is the
\* exception raised, seen the find_one calls made on artprint.
Frame0 == [total |-> 0, normalized_items |-> <<>>, err |-> NoResp, seen |-> <<>>]

\* main.py:181: db.artprint.find_one is called: there is a store, and
\* ObjectId(item.print_id) did not raise
LookupCalls(database, print_id) == database # None /\ ObjectId(print_id) # None

\* main.py:180-183: the lookup of one item; any exception (no store, an
\* InvalidId, a store call that raises) leaves doc = None
Lookup(database, catalog, print_id, fault) ==
    IF database = None THEN None
    ELSE IF ObjectId(print_id) = None THEN None
    ELSE IF fault = "raise" THEN None
    ELSE find_one(catalog, ObjectId(print_id))

\* doc.get('title') inside the f-string
TitleText(doc) == IF "title" \in DOMAIN doc THEN PyStr(doc["title"]) ELSE "None"

\* main.py:188: price = float(doc.get("price", 0)), in thousandths
PriceOf(doc) == Get(doc, "price", Num(0)).num

\* main.py:189: total += price * item.quantity
LineAmountNoQty(price, quantity) == price
LineAmount(price, quantity) == price * quantity

\* main.py:186: the stock test
OutOfStockNever(doc) == FALSE
OutOfStock(doc) == ~Truthy(Get(doc, "in_stock", Bool(TRUE)))

\* main.py:190-195: the normalized line
NormalizedItem(doc, item) ==
    [print_id |-> PyStr(doc["_id"]), title |-> Get(doc, "title", None),
     price |-> PriceOf(doc), quantity |-> item.quantity]

\* main.py:179-195: one iteration of the loop
LoopBodySkipMissing(f, database, catalog, item, fault) ==
    LET doc == Lookup(database, catalog, item.print_id, fault)
        seen1 == IF LookupCalls(database, item.print_id)
                 THEN Append(f.seen, ObjectId(item.print_id)) ELSE f.seen
    IN  IF IsEmptyDoc(doc) THEN [f EXCEPT !.seen = seen1]
        ELSE IF OutOfStock(doc)
        THEN [f EXCEPT !.seen = seen1,
                       !.err = HTTPException(400, "Print out of stock: " \o TitleText(doc))]
        ELSE [f EXCEPT !.seen = seen1,
                       !.total = f.total + LineAmount(PriceOf(doc), item.quantity),
                       !.normalized_items = Append(f.normalized_items, NormalizedItem(doc, item))]
LoopBody(f, database, catalog, item, fault) ==
    LET doc == Lookup(database, catalog, item.print_id, fault)
        seen1 == IF LookupCalls(database, item.print_id)
                 THEN Append(f.seen, ObjectId(item.print_id)) ELSE f.seen
    IN  IF IsEmptyDoc(doc)
        THEN [f EXCEPT !.seen = seen1,
                       !.err = HTTPException(404, "Print not found: " \o item.print_id)]
        ELSE IF OutOfStock(doc)
        THEN [f EXCEPT !.seen = seen1,
                       !.err = HTTPException(400, "Print out of stock: " \o TitleText(doc))]
        ELSE [f EXCEPT !.seen = seen1,
                       !.total = f.total + LineAmount(PriceOf(doc), item.quantity),
                       !.normalized_items = Append(f.normalized_items, NormalizedItem(doc, item))]

\* main.py:197-204: the Order built from the normalized lines (schemas.py is
\* not part of the sources; its fields are the specification's)
OrderModel(payload, f) ==
    [customer_name |-> Str(payload.customer_name),
     customer_email |-> Str(payload.customer_email),
     shipping_address |-> Str(payload.shipping_address),
     items |-> List([i \in 1..Len(f.normalized_items) |->
                        [print_id |-> f.normalized_items[i].print_id,
                         quantity |-> f.normalized_items[i].quantity]]),
     total |-> Num(Round2(f.total)),
     status |-> Str("pending")]

\* main.py:207: order_id = create_document("order", order), as the store it
\* leaves and the identifier it returns; raised when the call raises
InsertOrderReserve(payload, f, database, catalog, coll, n, fault) ==
    IF database = None \/ fault = "raise"
    THEN [raised |-> TRUE, artprint |-> catalog, order |-> coll, nextOid |-> n, order_id |-> ""]
    ELSE [raised |-> FALSE,
          artprint |-> SetField(catalog, f.seen[1].oid, "in_stock", Bool(FALSE)),
          order |-> create_document(coll, OrderModel(payload, f), n),
          nextOid |-> n + 1, order_id |-> HexLower(n)]
InsertOrder(payload, f, database, catalog, coll, n, fault) ==
    IF database = None \/ fault = "raise"
    THEN [raised |-> TRUE, artprint |-> catalog, order |-> coll, nextOid |-> n, order_id |-> ""]
    ELSE [raised |-> FALSE, artprint |-> catalog,
          order |-> create_document(coll, OrderModel(payload, f), n),
          nextOid |-> n + 1, order_id |-> HexLower(n)]

\* main.py:210-212: the response built from the order read back;
\* serialize_doc(None) is None, and the item assignment on it raises
OrderResponse(saved, f) ==
    IF saved = None THEN HTTPException(400, "store error")
    ELSE LET s == serialize_doc(saved)
         IN  Ok([k \in DOMAIN s \cup {"items_detailed"} |->
                    IF k = "items_detailed" THEN List(f.normalized_items) ELSE s[k]])

\* main.py:208-214: the read-back of the inserted order and the response
ReadBack(database, coll, order_id, f, fault) ==
    IF database = None \/ fault = "raise" THEN HTTPException(400, "store error")
    ELSE OrderResponse(find_one(coll, ObjectId(order_id)), f)

(***************************************************************************)
(* list_prints (main.py:145-151) and create_print (main.py:154-161).       *)
(***************************************************************************)
\* The featured query parameter: omitted, true or false
FeaturedParams == {None, Bool(TRUE), Bool(FALSE)}
EmptyFilter == [k \in {} |-> None]

\* main.py:147-149: the filter
FilterTruthy(featured) ==
    IF featured # None /\ Truthy(featured) THEN [k \in {"featured"} |-> featured]
    ELSE EmptyFilter
Filter(featured) ==
    IF featured # None THEN [k \in {"featured"} |-> featured] ELSE EmptyFilter

\* An exception no handler catches: the server's 500
ServerError == HTTPException(500, "Internal Server Error")

\* main.py:150-151: the serialized documents the filter selects;
\* get_documents raises without a store or when the read fails
ListPrintsResult(database, catalog, featured, fault) ==
    IF database = None \/ fault = "raise" THEN ServerError
    ELSE LET docs == get_documents(catalog, Filter(featured))
         IN  Ok(List([i \in 1..Len(docs) |-> serialize_doc(docs[i])]))

\* The ArtPrint bodies of POST /api/prints (schemas.py is not part of the
\* sources; the fields are the specification's)
CreatePrintRequests ==
    [title : {"Quiet Harbor"}, price : {125}, in_stock : {TRUE}, featured : BOOLEAN]
ArtPrintModel(payload) ==
    [k \in {"title", "price", "in_stock", "featured"} |->
        CASE k = "title" -> Str(payload.title)
          [] k = "price" -> Num(payload.price)
          [] k = "in_stock" -> Bool(payload.in_stock)
          [] OTHER -> Bool(payload.featured)]

\* main.py:157: new_id = create_document("artprint", payload)
InsertPrint(payload, database, catalog, n, fault) ==
    IF database = None \/ fault = "raise"
    THEN [raised |-> TRUE, artprint |-> catalog, nextOid |-> n, new_id |-> ""]
    ELSE [raised |-> FALSE, artprint |-> create_document(catalog, ArtPrintModel(payload), n),
          nextOid |-> n + 1, new_id |-> HexLower(n)]

\* main.py:158-161: the read-back of the new print and the response
PrintResponse(database, catalog, new_id, fault) ==
    IF database = None \/ fault = "raise" THEN HTTPException(400, "store error")
    ELSE Ok(serialize_doc(find_one(catalog, ObjectId(new_id))))

(***************************************************************************)
(* The process and its store.                                              *)
(***************************************************************************)
\* The price another client's write sets: 0.125
PriceVals == {125}
Procs == {"r1", "r2"}
\* The handler of the one-request specifications
Solo == "r1"

\* An order persisted by an earlier run of the process
EarlierOrder ==
    [k \in {"_id", "customer_name", "customer_email", "shipping_address", "items",
            "total", "status"} |->
        CASE k = "_id" -> Oid(Len(samples) + 1)
          [] k = "items" -> List(<<[print_id |-> HexLower(1), quantity |-> 1]>>)
          [] k = "total" -> Num(49000)
          [] k = "status" -> Str("pending")
          [] OTHER -> Str("earlier")]

\* The databases a process starts on: none, an empty one, and the one an
\* earlier run seeded and took an order on
Databases ==
    {[db |-> None, artprint |-> <<>>, order |-> <<>>, nextOid |-> 1],
     [db |-> Database, artprint |-> <<>>, order |-> <<>>, nextOid |-> 1],
     [db |-> Database, artprint |-> insert_many(<<>>, samples, 1),
      order |-> <<EarlierOrder>>, nextOid |-> Len(samples) + 2]}

\* A create_order handler that serves no request: its position pc, its
\* request, its locals (i, f, order_id), its response, and what it met:
\* pre the store when the request arrived, obs what the catalog held for
\* each item at its lookup, faults the store calls that raised, w0 and w1
\* the number of other clients' writes at its first and its last step
IdleProc ==
    [pc |-> "idle", payload |-> None, i |-> 1, f |-> Frame0, resp |-> NoResp,
     order_id |-> "", pre |-> [artprint |-> <<>>, order |-> <<>>], obs |-> <<>>,
     faults |-> {}, w0 |-> 0, w1 |-> 0]
IdlePrint == [pc |-> "idle", payload |-> None, new_id |-> "", resp |-> NoResp]

InitProcess ==
    /\ \E d \in Databases :
        /\ db = d.db
        /\ artprint = d.artprint
        /\ order = d.order
        /\ nextOid = d.nextOid
    /\ started = FALSE
    /\ proc = [r \in Procs |-> IdleProc]
    /\ cp = IdlePrint
    /\ lastReq = NoReq
    /\ resp = NoResp
    /\ writes = 0

Init ==
    /\ InitProcess
    /\ sdoc = None
    /\ sres = NotYet

\* The startup hook (main.py:42-98)
seed_data ==
    /\ ~started
    /\ started' = TRUE
    /\ \E fault \in StoreFaults :
        /\ fault = "raise" => db # None
        /\ \E s \in {SeedResult(db, artprint, nextOid, fault)} :
            /\ artprint' = s.artprint
            /\ nextOid' = s.nextOid
    /\ UNCHANGED <<db, order, proc, cp, lastReq, resp, writes, sdoc, sres>>

(***************************************************************************)
(* Vocabulary of the properties, stated on the catalog and independently   *)
(* of the handler's operators.                                             *)
(***************************************************************************)
\* The string is 24 hex digits, and the number of the identifier it names
WellFormed(s) == \E n \in OidNums : s \in {HexLower(n), HexUpper(n)}
OidNamed(s) == Oid(CHOOSE n \in OidNums : s \in {HexLower(n), HexUpper(n)})

\* The string names a print of the catalog, and that print
ExistsPrint(catalog, s) ==
    WellFormed(s) /\ \E i \in 1..Len(catalog) : catalog[i]["_id"] = OidNamed(s)
ThePrint(catalog, s) ==
    catalog[CHOOSE i \in 1..Len(catalog) : catalog[i]["_id"] = OidNamed(s)]
MarkedOutOfStock(doc) == "in_stock" \in DOMAIN doc /\ doc["in_stock"] = Bool(FALSE)
CatalogPrice(doc) == IF "price" \in DOMAIN doc THEN doc["price"].num ELSE 0

Missing(catalog, item) == ~ExistsPrint(catalog, item.print_id)
Unavailable(catalog, item) ==
    ExistsPrint(catalog, item.print_id) /\ MarkedOutOfStock(ThePrint(catalog, item.print_id))
Orderable(catalog, item) ==
    ExistsPrint(catalog, item.print_id) /\ ~MarkedOutOfStock(ThePrint(catalog, item.print_id))

\* What the catalog holds for an item at the step that looks it up, and
\* whether the read of that step failed
Observed(catalog, item, failed) ==
    [kind |-> IF Missing(catalog, item) THEN "missing"
              ELSE IF Unavailable(catalog, item) THEN "unavailable" ELSE "orderable",
     price |-> IF ExistsPrint(catalog, item.print_id)
               THEN CatalogPrice(ThePrint(catalog, item.print_id)) ELSE 0,
     title |-> IF ExistsPrint(catalog, item.print_id)
               THEN ThePrint(catalog, item.print_id)["title"].str ELSE "",
     failed |-> failed]

(***************************************************************************)
(* The create_order handler, one store call a step.                        *)
(***************************************************************************)
\* The handler ends with a response
Finish(p, response) == [p EXCEPT !.pc = "done", !.resp = response, !.w1 = writes]

\* main.py:172-178: the request arrives; an empty list is rejected
Begin(r, requests) ==
    /\ started
    /\ proc[r].pc = "idle"
    /\ \E payload \in requests :
        proc' = [proc EXCEPT ![r] =
                    LET p == [@ EXCEPT !.payload = payload, !.w0 = writes,
                                       !.pre = [artprint |-> artprint, order |-> order]]
                    IN  IF EmptyCheck(payload)
                        THEN Finish(p, HTTPException(400, "Order must contain at least one item"))
                        ELSE [p EXCEPT !.pc = IF Len(payload.items) = 0 THEN "persist"
                                              ELSE "loop"]]
    /\ UNCHANGED <<db, started, artprint, order, nextOid, cp, lastReq, resp, writes, sdoc, sres>>

\* main.py:179-195: one iteration, around its catalog read
LookupStep(r) ==
    /\ proc[r].pc = "loop"
    /\ \E fault \in StoreFaults :
        LET p == proc[r]
            item == p.payload.items[p.i]
            f1 == LoopBody(p.f, db, artprint, item, fault)
            failed == db = None \/ fault = "raise"
            p1 == [p EXCEPT !.f = f1,
                            !.obs = Append(p.obs, Observed(artprint, item, failed)),
                            !.faults = IF failed THEN p.faults \cup {"lookup"} ELSE p.faults]
        IN  /\ fault = "raise" => LookupCalls(db, item.print_id)
            /\ proc' = [proc EXCEPT ![r] =
                    IF f1.err # NoResp THEN Finish(p1, f1.err)
                    ELSE [p1 EXCEPT !.i = p.i + 1,
                                    !.pc = IF p.i = Len(p.payload.items) THEN "persist"
                                           ELSE "loop"]]
    /\ UNCHANGED <<db, started, artprint, order, nextOid, cp, lastReq, resp, writes, sdoc, sres>>

\* main.py:197-207: the Order is built and inserted, or the insert raises
InsertStep(r) ==
    /\ proc[r].pc = "persist"
    /\ \E fault \in StoreFaults :
        \E s \in {InsertOrder(proc[r].payload, proc[r].f, db, artprint, order, nextOid, fault)} :
            /\ artprint' = s.artprint
            /\ order' = s.order
            /\ nextOid' = s.nextOid
            /\ proc' = [proc EXCEPT ![r] =
                    IF s.raised
                    THEN Finish([@ EXCEPT !.faults = @ \cup {"insert"}],
                                HTTPException(400, "store error"))
                    ELSE [@ EXCEPT !.pc = "readback", !.order_id = s.order_id]]
    /\ UNCHANGED <<db, started, cp, lastReq, resp, writes, sdoc, sres>>

\* main.py:208-214: the inserted order is read back and returned
ReadBackStep(r) ==
    /\ proc[r].pc = "readback"
    /\ \E fault \in StoreFaults :
        proc' = [proc EXCEPT ![r] =
                    Finish([@ EXCEPT !.faults = IF fault = "raise" THEN @ \cup {"find"} ELSE @],
                           ReadBack(db, order, proc[r].order_id, proc[r].f, fault))]
    /\ UNCHANGED <<db, started, artprint, order, nextOid, cp, lastReq, resp, writes, sdoc, sres>>

(***************************************************************************)
(* Other clients' direct writes to the catalog; each changes the print it  *)
(* writes.                                                                 *)
(***************************************************************************)
\* The prints of the catalog, and those among them whose price and stock
\* other clients write: the two the order requests reference
PrintNums == {artprint[i]["_id"].oid : i \in 1..Len(artprint)}
Repriced == 1..2
RepricedNums == PrintNums \cap Repriced

WritePrice ==
    /\ started
    /\ writes < MaxWrites
    /\ \E n \in RepricedNums, m \in PriceVals :
        /\ Get(find_one(artprint, Oid(n)), "price", None) # Num(m)
        /\ artprint' = SetField(artprint, n, "price", Num(m))
    /\ writes' = writes + 1
    /\ UNCHANGED <<db, started, order, nextOid, proc, cp, lastReq, resp, sdoc, sres>>

WriteInStock ==
    /\ started
    /\ writes < MaxWrites
    /\ \E n \in RepricedNums, b \in BOOLEAN :
        /\ Get(find_one(artprint, Oid(n)), "in_stock", None) # Bool(b)
        /\ artprint' = SetField(artprint, n, "in_stock", Bool(b))
    /\ writes' = writes + 1
    /\ UNCHANGED <<db, started, order, nextOid, proc, cp, lastReq, resp, sdoc, sres>>

Unset ==
    /\ started
    /\ writes < MaxWrites
    /\ \E n \in RepricedNums, field \in {"price", "in_stock"} :
        /\ field \in DOMAIN find_one(artprint, Oid(n))
        /\ artprint' = UnsetField(artprint, n, field)
    /\ writes' = writes + 1
    /\ UNCHANGED <<db, started, order, nextOid, proc, cp, lastReq, resp, sdoc, sres>>

WriteFeatured ==
    /\ started
    /\ writes < MaxWrites
    /\ \E n \in PrintNums, b \in BOOLEAN :
        /\ Get(find_one(artprint, Oid(n)), "featured", None) # Bool(b)
        /\ artprint' = SetField(artprint, n, "featured", Bool(b))
    /\ writes' = writes + 1
    /\ UNCHANGED <<db, started, order, nextOid, proc, cp, lastReq, resp, sdoc, sres>>

UnsetFeatured ==
    /\ started
    /\ writes < MaxWrites
    /\ \E n \in PrintNums :
        /\ "featured" \in DOMAIN find_one(artprint, Oid(n))
        /\ artprint' = UnsetField(artprint, n, "featured")
    /\ writes' = writes + 1
    /\ UNCHANGED <<db, started, order, nextOid, proc, cp, lastReq, resp, sdoc, sres>>

(***************************************************************************)
(* One order request, among other clients' writes.                         *)
(***************************************************************************)
Next ==
    \/ seed_data
    \/ Begin(Solo, CreateOrderRequests)
    \/ LookupStep(Solo)
    \/ InsertStep(Solo)
    \/ ReadBackStep(Solo)
    \/ WritePrice
    \/ WriteInStock
    \/ Unset

Spec == Init /\ [][Next]_vars

Called == proc[Solo].pc = "done"
ReqItems == proc[Solo].payload.items
PreCatalog == proc[Solo].pre.artprint
PreOrders == proc[Solo].pre.order
Obs == proc[Solo].obs
Reply == proc[Solo].resp
LastOrder == order[Len(order)]
\* The call has inserted an Order
Persisted == proc[Solo].order_id # ""
\* No other client wrote the catalog during the call
Quiet == proc[Solo].w0 = proc[Solo].w1
ReadFailed == \E i \in 1..Len(Obs) : Obs[i].failed
PersistFailed == proc[Solo].faults \cap {"insert", "find"} # {}
\* The call stopped at an item whose print it read as out of stock
StoppedOutOfStock ==
    /\ Obs # <<>>
    /\ Obs[Len(Obs)].kind = "unavailable"
    /\ ~Obs[Len(Obs)].failed
\* The call stopped at a reference to no print, or at a read that failed
StoppedNotFound ==
    /\ Obs # <<>>
    /\ Obs[Len(Obs)].kind = "missing" \/ Obs[Len(Obs)].failed

\* Sum over the lines i.. of catalog price times quantity, each line counted
RECURSIVE SumOfLines(_, _, _)
SumOfLines(catalog, items, i) ==
    IF i > Len(items) THEN 0
    ELSE CatalogPrice(ThePrint(catalog, items[i].print_id)) * items[i].quantity
         + SumOfLines(catalog, items, i + 1)

\* The same sum over the prices the lookups met
RECURSIVE SumObserved(_, _, _)
SumObserved(obs, items, i) ==
    IF i > Len(items) THEN 0
    ELSE obs[i].price * items[i].quantity + SumObserved(obs, items, i + 1)

\* c is m rounded to 2 decimals (thousandths; a tie goes to the even hundredth)
IsRounded2(m, c) ==
    /\ c % 10 = 0
    /\ c - m \in -5..5
    /\ (c - m \in {-5, 5} => (c \div 10) % 2 = 0)

\* The call appended exactly one Order to the collection it found
OneOrderAdded ==
    /\ Len(order) = Len(PreOrders) + 1
    /\ SubSeq(order, 1, Len(PreOrders)) = PreOrders
    /\ LastOrder["_id"] = OidNamed(proc[Solo].order_id)
    /\ IsNum(LastOrder["total"])

\* C1 as claimed: a call whose items all reference existing, in-stock prints
\* of a catalog nobody writes meanwhile, and whose catalog reads all answer,
\* succeeds and persists an Order whose total is the rounded sum of price
\* times quantity.
C1_AlwaysSucceeds ==
    (/\ Called
     /\ Quiet
     /\ ~ReadFailed
     /\ ReqItems # <<>>
     /\ \A i \in 1..Len(ReqItems) : Orderable(PreCatalog, ReqItems[i])) =>
        /\ Reply.status = 200
        /\ OneOrderAdded
        /\ IsRounded2(SumOfLines(PreCatalog, ReqItems, 1), LastOrder["total"].num)

\* C1 (amended): a create_order call with a non-empty item list, each of
\* whose lookups meets an existing, in-stock print, succeeds unless a store
\* call fails: it answers 404 when a catalog read fails and 400 when the
\* insert or the read-back fails.  Every Order the call persists, and the
\* total a successful call returns, is the sum over the lines (duplicates
\* counted) of the catalog price at the line's lookup times the quantity,
\* rounded to 2 decimals, whoever the customer is.
C1_TotalFromCatalog ==
    (/\ Called
     /\ ReqItems # <<>>
     /\ \A i \in 1..Len(Obs) : Obs[i].kind = "orderable") =>
        /\ Reply.status = (IF ReadFailed THEN 404 ELSE IF PersistFailed THEN 400 ELSE 200)
        /\ (Reply.status = 200 => Persisted)
        /\ (~Persisted => order = PreOrders)
        /\ (Persisted =>
                /\ ~ReadFailed
                /\ Len(Obs) = Len(ReqItems)
                /\ OneOrderAdded
                /\ IsRounded2(SumObserved(Obs, ReqItems, 1), LastOrder["total"].num))
        /\ (Reply.status = 200 => Reply.body["total"] = LastOrder["total"])

\* Two lines of the same print, whose price another client changes between
\* the two lookups; the total is a rounding tie (98.125)
C1_Witness ==
    /\ Called
    /\ Reply.status = 200
    /\ Len(ReqItems) = 2
    /\ ReqItems[1].print_id = ReqItems[2].print_id
    /\ Obs[1].price # Obs[2].price
    /\ SumObserved(Obs, ReqItems, 1) % 10 = 5

\* C2: create_order with an empty item list fails with HTTP 400 and the
\* detail "Order must contain at least one item", leaves the order
\* collection as it was and reads nothing from the catalog.
C2_EmptyRejected ==
    (Called /\ ReqItems = <<>>) =>
        /\ Reply = HTTPException(400, "Order must contain at least one item")
        /\ order = PreOrders
        /\ ~Persisted
        /\ Obs = <<>>
        /\ proc[Solo].f.seen = <<>>

C2_Witness ==
    /\ Called
    /\ ReqItems = <<>>
    /\ Reply.status = 400
    /\ PreOrders # <<>>

\* Prints are neither added nor removed while the call runs, so a reference
\* that matches no print of the catalog the call found matches none later
SomeMissing == Called /\ \E i \in 1..Len(ReqItems) : Missing(PreCatalog, ReqItems[i])
FirstMissing ==
    CHOOSE k \in 1..Len(ReqItems) :
        /\ Missing(PreCatalog, ReqItems[k])
        /\ \A j \in 1..(k - 1) : ~Missing(PreCatalog, ReqItems[j])

\* C3 as claimed: a malformed or unknown print_id anywhere in the list gives
\* a 404, whatever the other items are.
C3_Always404 ==
    SomeMissing => Reply.status = 404 /\ order = PreOrders

\* C3 (amended): a call with a malformed or unknown print_id fails and
\* persists no Order; the error is the 404, unless the call stops at an
\* earlier item whose print it reads as out of stock, and then it is the 400
\* of that item.
C3_MissingFails ==
    SomeMissing =>
        /\ order = PreOrders
        /\ ~Persisted
        /\ Len(Obs) <= FirstMissing
        /\ Reply.status = (IF StoppedOutOfStock THEN 400 ELSE 404)
        /\ (Reply.status = 400 => Len(Obs) < FirstMissing)

\* An orderable item first, the missing reference second
C3_Witness ==
    /\ SomeMissing
    /\ Len(ReqItems) = 2
    /\ Len(Obs) = 2
    /\ Obs[1].kind = "orderable"
    /\ Reply.status = 404
    /\ order = PreOrders

\* C4 as claimed: an out-of-stock print anywhere in the list gives a 400,
\* whatever the other items are (here: in a catalog nobody writes meanwhile,
\* all of whose reads answer).
C4_Always400 ==
    (/\ Called
     /\ Quiet
     /\ ~ReadFailed
     /\ \E i \in 1..Len(ReqItems) : Unavailable(PreCatalog, ReqItems[i])) =>
        Reply.status = 400 /\ order = PreOrders

\* The item references a print marked out of stock when the call arrives
\* and, if the call gets to the item, when it looks it up
StaysUnavailable(i) ==
    /\ Unavailable(PreCatalog, ReqItems[i])
    /\ i <= Len(Obs) => Obs[i].kind = "unavailable"

\* C4 (amended): a call with an item whose print is marked out of stock fails
\* and persists no Order; the error is the 400 of the item it reads as out
\* of stock, unless the call stops at a malformed or unknown reference before
\* it, or at a catalog read that fails, and then it is the 404.
C4_UnavailableFails ==
    Called =>
        \A i \in 1..Len(ReqItems) :
            StaysUnavailable(i) =>
                /\ order = PreOrders
                /\ ~Persisted
                /\ Len(Obs) <= i
                /\ Reply.status = (IF StoppedOutOfStock THEN 400 ELSE 404)
                /\ (Reply.status = 404 => StoppedNotFound)

\* An orderable item first, the out-of-stock print second
C4_Witness ==
    /\ Called
    /\ Len(ReqItems) = 2
    /\ StaysUnavailable(2)
    /\ Len(Obs) = 2
    /\ Obs[1].kind = "orderable"
    /\ Reply.status = 400
    /\ order = PreOrders

\* The identifiers the items name, in input order
NamedOids(items) == [j \in 1..Len(items) |-> OidNamed(items[j].print_id)]

\* C8: no step of a create_order call writes the catalog; a successful call
\* has read the catalog once per item and has added exactly one document to
\* the order collection.
C8_CatalogUntouched ==
    [][proc'[Solo] # proc[Solo] =>
        /\ artprint' = artprint
        /\ (proc'[Solo].pc = "done" /\ proc'[Solo].resp.status = 200 =>
                /\ proc'[Solo].f.seen = NamedOids(proc'[Solo].payload.items)
                /\ Len(order') = Len(proc'[Solo].pre.order) + 1
                /\ SubSeq(order', 1, Len(order') - 1) = proc'[Solo].pre.order)]_vars

\* A successful call for two prints, found with an order in the collection,
\* while another client wrote the catalog
C8_Witness ==
    /\ Called
    /\ Reply.status = 200
    /\ Len(ReqItems) = 2
    /\ ReqItems[1].print_id # ReqItems[2].print_id
    /\ PreOrders # <<>>
    /\ ~Quiet

\* The error of an item the lookup met as missing or out of stock
ErrorFor(i) ==
    IF Obs[i].kind = "missing"
    THEN [status |-> 404, detail |-> "Print not found: " \o ReqItems[i].print_id, body |-> None]
    ELSE [status |-> 400, detail |-> "Print out of stock: " \o Obs[i].title, body |-> None]
Invalid(i) == Obs[i].kind # "orderable"
FirstInvalid == CHOOSE k \in 1..Len(Obs) : Invalid(k) /\ \A j \in 1..(k - 1) : ~Invalid(j)
\* The lines are the input's, in its order, under the resolved identifiers
LinesFollowInput(lines) ==
    /\ Len(lines) = Len(ReqItems)
    /\ \A i \in 1..Len(ReqItems) :
        /\ lines[i].print_id = HexLower(OidNamed(ReqItems[i].print_id).oid)
        /\ lines[i].quantity = ReqItems[i].quantity

\* C9 as claimed: items are processed in input order up to the first
\* invalid one: the error is that item's (404 naming its print_id for a
\* missing or malformed reference, 400 naming its print's title for an
\* out-of-stock print), no later item is looked up; when no item is invalid
\* all are looked up and the detailed and stored lines of a success follow
\* the input list.
C9_FirstOffendingWins ==
    (Called /\ ReqItems # <<>>) =>
        IF \E i \in 1..Len(Obs) : Invalid(i)
        THEN /\ Reply = ErrorFor(FirstInvalid)
             /\ Len(Obs) = FirstInvalid
        ELSE /\ Len(Obs) = Len(ReqItems)
             /\ Reply.status \in {200, 400}
             /\ (Reply.status = 200 =>
                    /\ LinesFollowInput(Reply.body["items_detailed"].list)
                    /\ LinesFollowInput(Reply.body["items"].list)
                    /\ LinesFollowInput(LastOrder["items"].list))

\* C10 as claimed: whenever create_order answers 400 or 404, the order
\* collection is as it was before the request.
C10_ErrorPersistsNothing ==
    (Called /\ Reply.status \in {400, 404}) => order = PreOrders

(***************************************************************************)
(* serialize_doc applied to a document.                                    *)
(***************************************************************************)
SerFields == {"id", "ref", "title"}
SerValues == {Oid(1), Oid(2), Str("x"), Str(HexLower(1)), Num(125), Bool(TRUE)}
\* The documents: any of the fields, an _id assigned by the store or none
SerDocs ==
    {None} \cup
    UNION {[S -> SerValues] : S \in SUBSET SerFields} \cup
    UNION {{[k \in S \cup {"_id"} |-> IF k = "_id" THEN id ELSE d[k]] :
                d \in [S -> SerValues], id \in {Oid(1), Oid(2)}} : S \in SUBSET SerFields}

InitSer ==
    /\ InitProcess
    /\ sdoc \in SerDocs
    /\ sres = NotYet

Serialize ==
    /\ sres = NotYet
    /\ sdoc \in SerDocs
    /\ sres' = serialize_doc(sdoc)
    /\ UNCHANGED <<db, started, artprint, order, nextOid, proc, cp, lastReq, resp, writes, sdoc>>

NextSer == Serialize

SpecSer == InitSer /\ [][NextSer]_vars

SerDone == sres # NotYet /\ sdoc # None

\* C6 as claimed: the result has no "_id", has the string form of the _id
\* under "id", and every other field of the input with its value unchanged.
C6_OthersUnchanged ==
    SerDone =>
        /\ "_id" \notin DOMAIN sres
        /\ ("_id" \in DOMAIN sdoc =>
                "id" \in DOMAIN sres /\ sres["id"] = Str(HexLower(sdoc["_id"].oid)))
        /\ \A k \in DOMAIN sdoc \ {"_id"} : k \in DOMAIN sres /\ sres[k] = sdoc[k]

\* C6 (amended): the result has no "_id"; when the document has an "_id" the
\* result's "id" is its string form, replacing any "id" the document had;
\* every other field is in the result, an identifier value as its string
\* form and any other value unchanged; the result has no further field.
C6_Serialized ==
    SerDone =>
        /\ DOMAIN sres =
            (DOMAIN sdoc \ {"_id"}) \cup (IF "_id" \in DOMAIN sdoc THEN {"id"} ELSE {})
        /\ \A k \in DOMAIN sres :
            sres[k] =
                IF k = "id" /\ "_id" \in DOMAIN sdoc THEN Str(HexLower(sdoc["_id"].oid))
                ELSE IF IsObjectId(sdoc[k]) THEN Str(HexLower(sdoc[k].oid))
                ELSE sdoc[k]

\* A document with an _id, an id of its own and an identifier-valued field
C6_Witness ==
    /\ SerDone
    /\ {"_id", "id", "ref", "title"} \subseteq DOMAIN sdoc
    /\ IsObjectId(sdoc["ref"])
    /\ IsNum(sdoc["id"])
    /\ IsStr(sres["id"])

(***************************************************************************)
(* The listing and the creation of prints, among other clients' writes of  *)
(* the featured flags.                                                     *)
(***************************************************************************)
\* GET /api/prints (main.py:145-151): one read of the store
list_prints ==
    /\ started
    /\ lastReq = NoReq
    /\ \E featured \in FeaturedParams, fault \in StoreFaults :
        /\ fault = "raise" => db # None
        /\ resp' = ListPrintsResult(db, artprint, featured, fault)
        /\ lastReq' = [op |-> "list_prints", payload |-> [featured |-> featured],
                       fault |-> fault, pre |-> artprint]
    /\ UNCHANGED <<db, started, artprint, order, nextOid, proc, cp, writes, sdoc, sres>>

\* POST /api/prints, main.py:156-157: the print is inserted, or the insert raises
create_print ==
    /\ started
    /\ cp.pc = "idle"
    /\ \E payload \in CreatePrintRequests, fault \in StoreFaults :
        /\ fault = "raise" => db # None
        /\ \E s \in {InsertPrint(payload, db, artprint, nextOid, fault)} :
            /\ artprint' = s.artprint
            /\ nextOid' = s.nextOid
            /\ cp' = IF s.raised
                     THEN [cp EXCEPT !.pc = "done", !.payload = payload,
                                     !.resp = HTTPException(400, "store error")]
                     ELSE [cp EXCEPT !.pc = "readback", !.payload = payload,
                                     !.new_id = s.new_id]
    /\ UNCHANGED <<db, started, order, proc, lastReq, resp, writes, sdoc, sres>>

\* POST /api/prints, main.py:158-161: the new print is read back and returned
create_print_readback ==
    /\ cp.pc = "readback"
    /\ \E fault \in StoreFaults :
        cp' = [cp EXCEPT !.pc = "done",
                         !.resp = PrintResponse(db, artprint, cp.new_id, fault)]
    /\ UNCHANGED <<db, started, artprint, order, nextOid, proc, lastReq, resp, writes, sdoc, sres>>

NextList ==
    \/ seed_data
    \/ WriteFeatured
    \/ UnsetFeatured
    \/ create_print
    \/ create_print_readback
    \/ list_prints

SpecList == Init /\ [][NextList]_vars

IsListPrints == lastReq.op = "list_prints"
\* The public representation of a print: its _id as a string under "id"
PublicPrint(doc) ==
    [k \in (DOMAIN doc \ {"_id"}) \cup {"id"} |->
        IF k = "id" THEN Str(HexLower(doc["_id"].oid)) ELSE doc[k]]
\* The print is one the request asks for
Wanted(doc) ==
    \/ lastReq.payload.featured = None
    \/ "featured" \in DOMAIN doc /\ doc["featured"] = lastReq.payload.featured
WantedIndexes == {i \in 1..Len(lastReq.pre) : Wanted(lastReq.pre[i])}
\* The response lists the public representations of the wanted prints, each once
ListsWanted ==
    /\ Len(resp.body.list) = Cardinality(WantedIndexes)
    /\ \A i \in WantedIndexes :
        \E j \in 1..Len(resp.body.list) : resp.body.list[j] = PublicPrint(lastReq.pre[i])
    /\ \A j \in 1..Len(resp.body.list) :
        \E i \in WantedIndexes : resp.body.list[j] = PublicPrint(lastReq.pre[i])

\* C7: what list_prints returns is the public representation of exactly the
\* prints whose featured flag equals the filter (a print without the flag
\* matches neither true nor false), of every print when the filter is
\* omitted, each once; it returns that whenever the store answers its read,
\* and its step leaves the catalog as it was.
C7_ListFiltered ==
    [][lastReq' # lastReq =>
        /\ artprint' = artprint
        /\ lastReq'.pre = artprint
        /\ resp'.status = (IF db = None \/ lastReq'.fault = "raise" THEN 500 ELSE 200)
        /\ (resp'.status = 200 => ListsWanted')]_vars

\* featured=false over a catalog with unfeatured prints and one without the
\* flag: the unfeatured ones are returned, the print without the flag is not
C7_Witness ==
    /\ IsListPrints
    /\ lastReq.payload.featured = Bool(FALSE)
    /\ resp.status = 200
    /\ Len(resp.body.list) >= 1
    /\ Len(resp.body.list) < Len(lastReq.pre)
    /\ \E i \in 1..Len(lastReq.pre) :
        /\ "featured" \notin DOMAIN lastReq.pre[i]
        /\ \A j \in 1..Len(resp.body.list) :
            resp.body.list[j]["id"] # Str(HexLower(lastReq.pre[i]["_id"].oid))

(***************************************************************************)
(* Concurrent create_order handlers, among other clients' writes.          *)
(***************************************************************************)
Item(print_id, quantity) == [print_id |-> print_id, quantity |-> quantity]
ConcItemLists ==
    {<<>>,
     <<Item(HexUpper(1), 1)>>,
     <<Item(HexLower(2), 1), Item(HexUpper(1), 2)>>,
     <<Item(HexUpper(1), 1), Item("not-an-id", 1)>>}
ConcRequests ==
    [customer_name : {"Ann"}, customer_email : {"c@example.com"},
     shipping_address : {"1 Main St"}, items : ConcItemLists]

NextConc ==
    \/ seed_data
    \/ \E r \in Procs : Begin(r, ConcRequests)
    \/ \E r \in Procs : LookupStep(r)
    \/ \E r \in Procs : InsertStep(r)
    \/ \E r \in Procs : ReadBackStep(r)
    \/ WritePrice
    \/ WriteInStock

SpecConc == Init /\ [][NextConc]_vars

\* The handler r inserts its Order in this step
Inserts(r) == proc[r].pc = "persist" /\ proc'[r].pc = "readback"
\* The Order of handler r, once inserted
HasOrder(r) == proc[r].order_id # ""
OrderOf(r) ==
    order[CHOOSE i \in 1..Len(order) : order[i]["_id"] = OidNamed(proc[r].order_id)]

\* C5 as claimed: at the step that inserts an Order, every print it
\* references is in the catalog and in stock, and its total is the rounded
\* sum of the catalog prices of that step times the quantities.
C5_ValidAtInsert ==
    [][\A r \in Procs :
        Inserts(r) =>
            /\ \A i \in 1..Len(proc[r].payload.items) :
                Orderable(artprint, proc[r].payload.items[i])
            /\ IsRounded2(SumOfLines(artprint, proc[r].payload.items, 1),
                          order'[Len(order')]["total"].num)]_vars

\* C5 (amended): under any interleaving of create_order handlers and direct
\* catalog writes, every Order in the collection satisfies: each print it
\* references was in the catalog and in stock at the step at which its line
\* was looked up, and its total is the rounded sum of the catalog price at
\* that lookup step times the quantity, over its lines.
C5_ValidAtLookup ==
    \A r \in Procs :
        HasOrder(r) =>
            /\ \E i \in 1..Len(order) : order[i]["_id"] = OidNamed(proc[r].order_id)
            /\ Len(proc[r].obs) = Len(proc[r].payload.items)
            /\ \A i \in 1..Len(proc[r].obs) :
                proc[r].obs[i].kind = "orderable" /\ ~proc[r].obs[i].failed
            /\ IsRounded2(SumObserved(proc[r].obs, proc[r].payload.items, 1),
                          OrderOf(r)["total"].num)
            /\ Len(OrderOf(r)["items"].list) = Len(proc[r].payload.items)

\* Both handlers have inserted an Order, and a catalog write has since made
\* a stored total differ from the catalog's
C5_Witness ==
    /\ \A r \in Procs : HasOrder(r) /\ Len(proc[r].payload.items) = 2
    /\ \E r \in Procs :
        /\ \A i \in 1..2 : ExistsPrint(artprint, proc[r].payload.items[i].print_id)
        /\ ~IsRounded2(SumOfLines(artprint, proc[r].payload.items, 1),
                       OrderOf(r)["total"].num)

====
